---- MODULE Spec2Model ----
(***************************************************************************)
(* Battle.net login REST service (bnetserver/REST/LoginRESTService.cpp).   *)
(* Requests are dispatched to one of five handlers; handlers either answer *)
(* at once or queue data-store operations whose completion runs a          *)
(* continuation.  Strings are sequences of ASCII codes.  Timestamps are    *)
(* seconds; the uint32 columns and casts of the source hold every value    *)
(* the model reaches, so they are plain integers here.                     *)
(***************************************************************************)
EXTENDS Integers, Sequences, FiniteSets, TLC

(***************************************************************************)
(* Bounds of the model.                                                    *)
(***************************************************************************)
MaxReq == 2
MaxTime == 2
MaxDuration == 2
MaxWrongPass == 2
MaxBanTime == 1

Requests == 1..MaxReq

(***************************************************************************)
(* Strings.                                                                *)
(***************************************************************************)
EmptyStr == << >>

\* ':' , the separator ExtractAuthorization looks for
COLON == 58

\* '=' , the base64 padding character
PADDING == 61

\* '#', the separator of a game account name
HASH == 35

\* "Basic "
BASIC_PREFIX == <<66, 97, 115, 105, 99, 32>>

\* "TC-"
TICKET_PREFIX == <<84, 67, 45>>

\* "WoW"
WOW_PREFIX == <<87, 111, 87>>

\* Trinity::Crypto::GetRandomBytes<20>
TICKET_RANDOM_BYTES == 20

StartsWith(s, p) ==
    /\ Len(s) >= Len(p)
    /\ SubSeq(s, 1, Len(p)) = p

RemovePrefix(s, n) == SubSeq(s, n + 1, Len(s))

\* std::string_view::find: the first index (from 1) of c in s, 0 when absent
Find(s, c) ==
    IF \E i \in 1..Len(s) : s[i] = c
    THEN CHOOSE i \in 1..Len(s) : s[i] = c /\ \A j \in 1..(i - 1) : s[j] # c
    ELSE 0

\* Utf8ToUpperOnlyLatin on the ASCII range
ToUpperChar(c) == IF c >= 97 /\ c <= 122 THEN c - 32 ELSE c

Utf8ToUpperOnlyLatin(s) == [i \in 1..Len(s) |-> ToUpperChar(s[i])]

HexDigit(n) == IF n < 10 THEN 48 + n ELSE 55 + n

RECURSIVE ByteArrayToHexStr(_)
ByteArrayToHexStr(bytes) ==
    IF bytes = << >> THEN << >>
    ELSE <<HexDigit(Head(bytes) \div 16), HexDigit(Head(bytes) % 16)>>
             \o ByteArrayToHexStr(Tail(bytes))

\* the random bytes the k-th call of GetRandomBytes<20> returns: every call
\* returns bytes no other call returns
GetRandomBytes(k) == [i \in 1..TICKET_RANDOM_BYTES |-> k]

NewTicket(k) == TICKET_PREFIX \o ByteArrayToHexStr(GetRandomBytes(k))

(***************************************************************************)
(* Base64 (Trinity::Encoding::Base64).                                     *)
(***************************************************************************)
DECODE_ERROR == 255

B64DecodeChar(c) ==
    IF c >= 65 /\ c <= 90 THEN c - 65
    ELSE IF c >= 97 /\ c <= 122 THEN c - 71
    ELSE IF c >= 48 /\ c <= 57 THEN c + 4
    ELSE IF c = 43 THEN 62
    ELSE IF c = 47 THEN 63
    ELSE DECODE_ERROR

B64EncodeChar(v) ==
    IF v < 26 THEN v + 65
    ELSE IF v < 52 THEN v + 71
    ELSE IF v < 62 THEN v - 4
    ELSE IF v = 62 THEN 43
    ELSE 47

Pow2(n) == 2 ^ n

\* the symbols before the padding; the rest must be padding only
B64Symbols(data) ==
    LET p == Find(data, PADDING)
    IN IF p = 0 THEN data ELSE SubSeq(data, 1, p - 1)

B64PaddingOk(data) ==
    LET p == Find(data, PADDING)
    IN p = 0 \/ \A i \in p..Len(data) : data[i] = PADDING

RECURSIVE B64Bytes(_, _, _)
B64Bytes(syms, acc, nbits) ==
    IF syms = << >> THEN << >>
    ELSE LET a == acc * 64 + B64DecodeChar(Head(syms))
             n == nbits + 6
         IN IF n >= 8
            THEN <<a \div Pow2(n - 8)>> \o B64Bytes(Tail(syms), a % Pow2(n - 8), n - 8)
            ELSE B64Bytes(Tail(syms), a, n)

\* Optional<std::vector<uint8>>: ok = FALSE is the empty Optional
Base64Decode(data) ==
    IF /\ B64PaddingOk(data)
       /\ \A i \in 1..Len(B64Symbols(data)) : B64DecodeChar(B64Symbols(data)[i]) # DECODE_ERROR
    THEN [ok |-> TRUE, bytes |-> B64Bytes(B64Symbols(data), 0, 0)]
    ELSE [ok |-> FALSE, bytes |-> << >>]

RECURSIVE B64EncodeGroups(_)
B64EncodeGroups(bytes) ==
    IF bytes = << >> THEN << >>
    ELSE IF Len(bytes) = 1
    THEN <<B64EncodeChar(bytes[1] \div 4), B64EncodeChar((bytes[1] % 4) * 16),
           PADDING, PADDING>>
    ELSE IF Len(bytes) = 2
    THEN <<B64EncodeChar(bytes[1] \div 4),
           B64EncodeChar((bytes[1] % 4) * 16 + bytes[2] \div 16),
           B64EncodeChar((bytes[2] % 16) * 4), PADDING>>
    ELSE <<B64EncodeChar(bytes[1] \div 4),
           B64EncodeChar((bytes[1] % 4) * 16 + bytes[2] \div 16),
           B64EncodeChar((bytes[2] % 16) * 4 + bytes[3] \div 64),
           B64EncodeChar(bytes[3] % 64)>>
             \o B64EncodeGroups(SubSeq(bytes, 4, Len(bytes)))

Base64Encode(bytes) == B64EncodeGroups(bytes)

(***************************************************************************)
(* Authorization extraction.  A request's authorization header is          *)
(* [present, value].                                                       *)
(***************************************************************************)
NoHeader == [present |-> FALSE, value |-> EmptyStr]

Header(v) == [present |-> TRUE, value |-> v]

StripBasicPrefix(authorization) ==
    IF StartsWith(authorization, BASIC_PREFIX)
    THEN RemovePrefix(authorization, Len(BASIC_PREFIX))
    ELSE authorization

\* TicketOfDecoded that keeps the ':' it found
TicketOfDecoded_KeepsColon(decodedHeader) ==
    LET ticketEnd == Find(decodedHeader, COLON)
    IN IF ticketEnd # 0
       THEN SubSeq(decodedHeader, 1, ticketEnd)
       ELSE decodedHeader

TicketOfDecoded(decodedHeader) ==
    LET ticketEnd == Find(decodedHeader, COLON)
    IN IF ticketEnd # 0
       THEN SubSeq(decodedHeader, 1, ticketEnd - 1)
       ELSE decodedHeader

ExtractAuthorization(header) ==
    IF ~header.present THEN EmptyStr
    ELSE LET decoded == Base64Decode(StripBasicPrefix(header.value))
         IN IF ~decoded.ok THEN EmptyStr
            ELSE TicketOfDecoded(decoded.bytes)

\* the authorization headers clients send: none; not base64; an empty ticket
\* before the ':'; the ticket an account may hold at startup, with the scheme
\* prefix and a ':' part, and without either; the first ticket a login issues
\* (a ticket no account holds until then)
AuthorizationHeaders ==
    {NoHeader,
     Header(BASIC_PREFIX \o <<33, 33, 33, 33>>),
     Header(BASIC_PREFIX \o Base64Encode(<<COLON, 120>>)),
     Header(BASIC_PREFIX \o Base64Encode(NewTicket(0) \o <<COLON, 120>>)),
     Header(Base64Encode(NewTicket(0))),
     Header(BASIC_PREFIX \o Base64Encode(NewTicket(1) \o <<COLON>>))}

\* ExtractAuthorization(context.request) as the handlers call it, tabulated
\* once over the headers clients send
ExtractedTicket == [header \in AuthorizationHeaders |-> ExtractAuthorization(header)]

(***************************************************************************)
(* Credentials.  SHA-256 is collision free here: a digest is the record of *)
(* what was hashed, and its hex rendering records the digest and the byte  *)
(* order.                                                                  *)
(***************************************************************************)
Sha256(data) == [sha256 |-> data]

DigestToHexStr(digest, reverse) == [hex |-> digest, reverse |-> reverse]

CalculateShaPassHash(name, password) ==
    DigestToHexStr(
        Sha256(<<DigestToHexStr(Sha256(name), FALSE), <<COLON>>, password>>),
        TRUE)

(***************************************************************************)
(* The data store: battlenet_accounts, battlenet_account_bans, ip_banned.  *)
(* The accounts' e-mail and password hash never change.                    *)
(***************************************************************************)
AccountIds == {1}

\* "A", "B", ...: the e-mail of account a, as stored (upper case)
AccountEmail(a) == <<64 + a>>

\* "PW"
AccountPassword(a) == <<80, 87>>

AccountPassHash(a) == CalculateShaPassHash(AccountEmail(a), AccountPassword(a))

\* 127.0.0.1, 8.8.8.8
ClientAddresses == {<<127, 0, 0, 1>>, <<8, 8, 8, 8>>}

NoBan == [banned |-> FALSE, bandate |-> 0, unbandate |-> 0]

Ban(from, seconds) == [banned |-> TRUE, bandate |-> from, unbandate |-> from + seconds]

\* a prepared statement with its bound parameters
Stmt(id, str, n0, n1) == [id |-> id, str |-> str, n0 |-> n0, n1 |-> n1]

Operation(r, kind, stmts) == [req |-> r, kind |-> kind, stmts |-> stmts]

\* bab.unbandate > UNIX_TIMESTAMP() OR bab.unbandate = bab.bandate
BanActive(ban, t) == ban.banned /\ (ban.unbandate > t \/ ban.unbandate = ban.bandate)

AccountsWithTicket(d, ticket) == {a \in AccountIds : d.accounts[a].LoginTicket = ticket}

AccountsWithEmail(email) == {a \in AccountIds : AccountEmail(a) = email}

\* a data-modifying statement applied to the tables d at time t
ApplyStmt(d, s, t) ==
    CASE s.id = "LOGIN_UPD_BNET_FAILED_LOGINS" ->
           [d EXCEPT !.accounts[s.n0].failed_logins = @ + 1]
      [] s.id = "LOGIN_UPD_BNET_RESET_FAILED_LOGINS" ->
           [d EXCEPT !.accounts[s.n0].failed_logins = 0]
      [] s.id = "LOGIN_INS_BNET_ACCOUNT_AUTO_BANNED" ->
           [d EXCEPT !.account_bans[s.n0] = Ban(t, s.n1)]
      [] s.id = "LOGIN_INS_IP_AUTO_BANNED" ->
           [d EXCEPT !.ip_banned[s.str] = Ban(t, s.n1)]
      [] s.id = "LOGIN_UPD_BNET_AUTHENTICATION" ->
           [d EXCEPT !.accounts[s.n1].LoginTicket = s.str,
                     !.accounts[s.n1].LoginTicketExpiry = s.n0]
      [] s.id = "LOGIN_UPD_BNET_EXISTING_AUTHENTICATION" ->
           [d EXCEPT !.accounts =
               [a \in AccountIds |->
                   IF d.accounts[a].LoginTicket = s.str
                   THEN [d.accounts[a] EXCEPT !.LoginTicketExpiry = s.n0]
                   ELSE d.accounts[a]]]
      [] OTHER -> d

RECURSIVE ApplyAll(_, _, _)
ApplyAll(d, stmts, t) ==
    IF stmts = << >> THEN d
    ELSE ApplyAll(ApplyStmt(d, Head(stmts), t), Tail(stmts), t)

(***************************************************************************)
(* Query results.  found = FALSE is the null PreparedQueryResult.          *)
(***************************************************************************)
NoResult ==
    [found |-> FALSE, accountId |-> 0, pass_hash |-> CalculateShaPassHash(EmptyStr, EmptyStr),
     failedLogins |-> 0, loginTicket |-> EmptyStr, loginTicketExpiry |-> 0,
     isBanned |-> FALSE, rows |-> << >>]

\* the game accounts of battle.net account a: name "a#1", no ban row for
\* account 1's, a permanent ban (bandate = unbandate) for the others'
GameAccountRows(a) ==
    << [name |-> <<48 + a, HASH, 49>>, expansion |-> 9, banIsNull |-> (a = 1),
        banDate |-> 1, unbanDate |-> 1, reason |-> "autoban"] >>

SelectAuthentication(d, login, t) ==
    IF AccountsWithEmail(login) = {} THEN NoResult
    ELSE LET a == CHOOSE x \in AccountsWithEmail(login) : TRUE
         IN [NoResult EXCEPT
                !.found = TRUE,
                !.accountId = a,
                !.pass_hash = AccountPassHash(a),
                !.failedLogins = d.accounts[a].failed_logins,
                !.loginTicket = d.accounts[a].LoginTicket,
                !.loginTicketExpiry = d.accounts[a].LoginTicketExpiry,
                !.isBanned = BanActive(d.account_bans[a], t)]

SelectExistingAuthentication(d, ticket) ==
    IF AccountsWithTicket(d, ticket) = {} THEN NoResult
    ELSE LET a == CHOOSE x \in AccountsWithTicket(d, ticket) : TRUE
         IN [NoResult EXCEPT
                !.found = TRUE,
                !.loginTicketExpiry = d.accounts[a].LoginTicketExpiry]

SelectGameAccountList(d, ticket) ==
    IF AccountsWithTicket(d, ticket) = {} THEN NoResult
    ELSE LET a == CHOOSE x \in AccountsWithTicket(d, ticket) : TRUE
         IN [NoResult EXCEPT !.found = TRUE, !.rows = GameAccountRows(a)]

\* the result the store's executor hands to the continuation of a query
QueryResult(d, s, t) ==
    CASE s.id = "LOGIN_SEL_BNET_AUTHENTICATION" -> SelectAuthentication(d, s.str, t)
      [] s.id = "LOGIN_SEL_BNET_EXISTING_AUTHENTICATION" -> SelectExistingAuthentication(d, s.str)
      [] s.id = "LOGIN_SEL_BNET_GAME_ACCOUNT_LIST" -> SelectGameAccountList(d, s.str)
      [] OTHER -> NoResult

(***************************************************************************)
(* Requests and responses.                                                 *)
(***************************************************************************)
JSON_CONTENT == "application/json;charset=utf-8"

NoBody == [type |-> "none"]

\* HttpRequestContext::response as constructed: status 200, no body
NewResponse == [status |-> "ok", content_type |-> "", body |-> NoBody]

\* JSON::Login::LoginResult; has_login_ticket is the field's presence bit
LoginResult(state, code, message, hasTicket, ticket) ==
    [type |-> "LoginResult", authentication_state |-> state, error_code |-> code,
     error_message |-> message, has_login_ticket |-> hasTicket, login_ticket |-> ticket]

\* JSON::Login::LoginRefreshResult
LoginRefreshResult(hasExpiry, expiry, isExpired) ==
    [type |-> "LoginRefreshResult", has_login_ticket_expiry |-> hasExpiry,
     login_ticket_expiry |-> expiry, is_expired |-> isExpired]

\* _formInputs, set up in StartNetwork
FormInputs ==
    [type |-> "FormInputs", form_type |-> "LOGIN_FORM",
     inputs |-> << [input_id |-> "account_name", type |-> "text", label |-> "E-mail", max_length |-> 320],
                   [input_id |-> "password", type |-> "password", label |-> "Password", max_length |-> 16],
                   [input_id |-> "log_in_submit", type |-> "submit", label |-> "Log In", max_length |-> 0] >>]

\* a login form as posted: decodable = FALSE is a body JSON::Deserialize rejects
LoginForm(decodable, inputs) == [decodable |-> decodable, inputs |-> inputs]

FormInput(id, value) == [input_id |-> id, value |-> value]

NoForm == LoginForm(FALSE, << >>)

\* the loop over loginForm.inputs(): the last input with this id wins
RECURSIVE FormValue(_, _, _)
FormValue(inputs, id, value) ==
    IF inputs = << >> THEN value
    ELSE FormValue(Tail(inputs), id,
                   IF Head(inputs).input_id = id THEN Head(inputs).value ELSE value)

\* a request slot before a request arrives in it
NewRequest(r) ==
    [id |-> r, kind |-> "none", pc |-> "new", addr |-> << >>, addressIndex |-> "none",
     header |-> NoHeader,
     form |-> NoForm, ticket |-> EmptyStr, login |-> EmptyStr,
     sentPasswordHash |-> CalculateShaPassHash(EmptyStr, EmptyStr),
     result |-> NoResult, response |-> NewResponse, handlerResult |-> "none"]

\* what a handler or a continuation did: the request after it, the data-store
\* operations it submitted (in order), the responses it sent itself (in order)
Outcome(rq, ops, sends) == [rq |-> rq, ops |-> ops, sends |-> sends]

SetJson(response, body) == [response EXCEPT !.content_type = JSON_CONTENT, !.body = body]

(***************************************************************************)
(* Address resolution.                                                     *)
(***************************************************************************)
\* _hostnames[0] (LoginREST.ExternalAddress), _hostnames[1] (LoginREST.LocalAddress)
Hostnames == <<"external.example", "internal.example">>

\* BattlenetPort, default
BattlenetPort == 1119

IsLoopback(address) == address[1] = 127

\* GetHostnameForClient that looks at the loopback flag before the selection
GetHostnameForClient_LoopbackFirst(address, sel) ==
    IF IsLoopback(address) THEN Hostnames[2]
    ELSE IF sel # "none" THEN Hostnames[(IF sel = "0" THEN 0 ELSE 1) + 1]
    ELSE Hostnames[1]

\* sel is what Trinity::Net::SelectAddressForClient returned: "none", or the
\* index 0 or 1 of the chosen entry of _addresses
GetHostnameForClient(address, sel) ==
    IF sel # "none" THEN Hostnames[(IF sel = "0" THEN 0 ELSE 1) + 1]
    ELSE IF IsLoopback(address) THEN Hostnames[2]
    ELSE Hostnames[1]

(***************************************************************************)
(* Handlers.                                                               *)
(***************************************************************************)
\* HttpService::HandleUnauthorized: status 401, handled
HandleUnauthorized(rq) ==
    Outcome([rq EXCEPT !.response.status = "unauthorized", !.handlerResult = "Handled"],
            << >>, << >>)

HandleGetForm(rq) ==
    Outcome([rq EXCEPT !.response = SetJson(@, FormInputs), !.handlerResult = "Handled"],
            << >>, << >>)

HandleGetPortal(rq, sel) ==
    Outcome([rq EXCEPT !.response = [@ EXCEPT !.content_type = "text/plain",
                                              !.body = [type |-> "text",
                                                        hostname |-> GetHostnameForClient(rq.addr, sel),
                                                        port |-> BattlenetPort]],
                       !.handlerResult = "Handled"],
            << >>, << >>)

HandleGetGameAccounts(rq) ==
    LET ticket == ExtractedTicket[rq.header]
    IN IF ticket = EmptyStr THEN HandleUnauthorized(rq)
       ELSE Outcome([rq EXCEPT !.handlerResult = "Async"],
                    << Operation(rq.id, "query",
                                 << Stmt("LOGIN_SEL_BNET_GAME_ACCOUNT_LIST", ticket, 0, 0) >>) >>,
                    << >>)

\* HandlePostRefreshLoginTicket that answers "expired" while its lookup is queued
HandlePostRefreshLoginTicket_AnswersAtOnce(rq) ==
    LET ticket == ExtractedTicket[rq.header]
        response == SetJson(rq.response, LoginRefreshResult(FALSE, 0, TRUE))
    IN IF ticket = EmptyStr THEN HandleUnauthorized(rq)
       ELSE Outcome([rq EXCEPT !.ticket = ticket, !.handlerResult = "Async",
                               !.response = response],
                    << Operation(rq.id, "query",
                                 << Stmt("LOGIN_SEL_BNET_EXISTING_AUTHENTICATION", ticket, 0, 0) >>) >>,
                    << response >>)

HandlePostRefreshLoginTicket(rq) ==
    LET ticket == ExtractedTicket[rq.header]
    IN IF ticket = EmptyStr THEN HandleUnauthorized(rq)
       ELSE Outcome([rq EXCEPT !.ticket = ticket, !.handlerResult = "Async"],
                    << Operation(rq.id, "query",
                                 << Stmt("LOGIN_SEL_BNET_EXISTING_AUTHENTICATION", ticket, 0, 0) >>) >>,
                    << >>)

UNABLE_TO_DECODE_MESSAGE ==
    "There was an internal error while connecting to Battle.net. Please try again later."

HandlePostLogin(rq) ==
    IF ~rq.form.decodable
    THEN LET response == [SetJson(rq.response,
                                  LoginResult("LOGIN", "UNABLE_TO_DECODE",
                                              UNABLE_TO_DECODE_MESSAGE, FALSE, EmptyStr))
                             EXCEPT !.status = "bad_request"]
         IN Outcome([rq EXCEPT !.response = response, !.handlerResult = "Handled"],
                    << >>, << response >>)
    ELSE LET login == Utf8ToUpperOnlyLatin(FormValue(rq.form.inputs, "account_name", EmptyStr))
             password == Utf8ToUpperOnlyLatin(FormValue(rq.form.inputs, "password", EmptyStr))
         IN Outcome([rq EXCEPT !.login = login,
                               !.sentPasswordHash = CalculateShaPassHash(login, password),
                               !.handlerResult = "Async"],
                    << Operation(rq.id, "query",
                                 << Stmt("LOGIN_SEL_BNET_AUTHENTICATION", login, 0, 0) >>) >>,
                    << >>)

(***************************************************************************)
(* Continuations.  t is what time(nullptr) returns while the continuation  *)
(* runs, c the configuration.                                              *)
(***************************************************************************)
FormatDisplayName(name) ==
    LET hashPos == Find(name, HASH)
    IN IF hashPos # 0
       THEN WOW_PREFIX \o SubSeq(name, hashPos + 1, Len(name))
       ELSE name

GameAccountInfo(row, t) ==
    [display_name |-> FormatDisplayName(row.name),
     expansion |-> row.expansion,
     has_suspension |-> ~row.banIsNull,
     is_suspended |-> (~row.banIsNull /\ row.unbanDate > t),
     is_banned |-> (~row.banIsNull /\ row.banDate = row.unbanDate),
     suspension_reason |-> IF row.banIsNull THEN "" ELSE row.reason,
     suspension_expires |-> IF row.banIsNull THEN 0 ELSE row.unbanDate]

GameAccountsCallback(rq, t) ==
    LET list == [type |-> "GameAccountList",
                 game_accounts |-> IF rq.result.found
                                   THEN [i \in 1..Len(rq.result.rows) |->
                                            GameAccountInfo(rq.result.rows[i], t)]
                                   ELSE << >>]
        response == SetJson(rq.response, list)
    IN Outcome([rq EXCEPT !.response = response], << >>, << response >>)

\* RefreshCallback with the expiry test loginTicketExpiry >= now
RefreshCallback_AtOrAfter(rq, t, c) ==
    LET live == rq.result.found /\ rq.result.loginTicketExpiry >= t
        body == IF live
                THEN LoginRefreshResult(TRUE, t + c.loginTicketDuration, FALSE)
                ELSE LoginRefreshResult(FALSE, 0, TRUE)
        response == SetJson(rq.response, body)
    IN Outcome([rq EXCEPT !.response = response],
               IF live
               THEN << Operation(rq.id, "execute",
                                 << Stmt("LOGIN_UPD_BNET_EXISTING_AUTHENTICATION", rq.ticket,
                                         t + c.loginTicketDuration, 0) >>) >>
               ELSE << >>,
               << response >>)

\* RefreshCallback that answers now + duration and stores now
RefreshCallback_StoresNow(rq, t, c) ==
    LET live == rq.result.found /\ rq.result.loginTicketExpiry > t
        body == IF live
                THEN LoginRefreshResult(TRUE, t + c.loginTicketDuration, FALSE)
                ELSE LoginRefreshResult(FALSE, 0, TRUE)
        response == SetJson(rq.response, body)
    IN Outcome([rq EXCEPT !.response = response],
               IF live
               THEN << Operation(rq.id, "execute",
                                 << Stmt("LOGIN_UPD_BNET_EXISTING_AUTHENTICATION", rq.ticket,
                                         t, 0) >>) >>
               ELSE << >>,
               << response >>)

RefreshCallback(rq, t, c) ==
    LET live == rq.result.found /\ rq.result.loginTicketExpiry > t
        body == IF live
                THEN LoginRefreshResult(TRUE, t + c.loginTicketDuration, FALSE)
                ELSE LoginRefreshResult(FALSE, 0, TRUE)
        response == SetJson(rq.response, body)
    IN Outcome([rq EXCEPT !.response = response],
               IF live
               THEN << Operation(rq.id, "execute",
                                 << Stmt("LOGIN_UPD_BNET_EXISTING_AUTHENTICATION", rq.ticket,
                                         t + c.loginTicketDuration, 0) >>) >>
               ELSE << >>,
               << response >>)

\* WrongPasswordOps without the reset of the counter after the ban
WrongPasswordOps_NoReset(rq, c) ==
    LET accountId == rq.result.accountId
        failedLogins == rq.result.failedLogins + 1
        increment == Stmt("LOGIN_UPD_BNET_FAILED_LOGINS", EmptyStr, accountId, 0)
        ban == IF c.banType = "BAN_ACCOUNT"
               THEN Stmt("LOGIN_INS_BNET_ACCOUNT_AUTO_BANNED", EmptyStr, accountId, c.banTime)
               ELSE Stmt("LOGIN_INS_IP_AUTO_BANNED", rq.addr, 0, c.banTime)
    IN IF rq.result.isBanned \/ c.maxWrongPassword = 0 THEN << >>
       ELSE << Operation(rq.id, "transaction",
                         IF failedLogins >= c.maxWrongPassword
                         THEN << increment, ban >>
                         ELSE << increment >>) >>

\* WrongPasswordOps without the test of WrongPass.MaxCount
WrongPasswordOps_NoMaxCheck(rq, c) ==
    LET accountId == rq.result.accountId
        failedLogins == rq.result.failedLogins + 1
        increment == Stmt("LOGIN_UPD_BNET_FAILED_LOGINS", EmptyStr, accountId, 0)
        ban == IF c.banType = "BAN_ACCOUNT"
               THEN Stmt("LOGIN_INS_BNET_ACCOUNT_AUTO_BANNED", EmptyStr, accountId, c.banTime)
               ELSE Stmt("LOGIN_INS_IP_AUTO_BANNED", rq.addr, 0, c.banTime)
        reset == Stmt("LOGIN_UPD_BNET_RESET_FAILED_LOGINS", EmptyStr, accountId, 0)
    IN IF rq.result.isBanned THEN << >>
       ELSE << Operation(rq.id, "transaction",
                         IF failedLogins >= c.maxWrongPassword
                         THEN << increment, ban, reset >>
                         ELSE << increment >>) >>

\* WrongPasswordOps with the increment executed on its own, outside the
\* transaction of the ban and the reset
WrongPasswordOps_Split(rq, c) ==
    LET accountId == rq.result.accountId
        failedLogins == rq.result.failedLogins + 1
        increment == Stmt("LOGIN_UPD_BNET_FAILED_LOGINS", EmptyStr, accountId, 0)
        ban == IF c.banType = "BAN_ACCOUNT"
               THEN Stmt("LOGIN_INS_BNET_ACCOUNT_AUTO_BANNED", EmptyStr, accountId, c.banTime)
               ELSE Stmt("LOGIN_INS_IP_AUTO_BANNED", rq.addr, 0, c.banTime)
        reset == Stmt("LOGIN_UPD_BNET_RESET_FAILED_LOGINS", EmptyStr, accountId, 0)
    IN IF rq.result.isBanned \/ c.maxWrongPassword = 0 THEN << >>
       ELSE IF failedLogins >= c.maxWrongPassword
       THEN << Operation(rq.id, "execute", << increment >>),
               Operation(rq.id, "transaction", << ban, reset >>) >>
       ELSE << Operation(rq.id, "transaction", << increment >>) >>

\* WrongPasswordOps that still counts the failed login when WrongPass.MaxCount is 0
WrongPasswordOps_CountsWhenDisabled(rq, c) ==
    LET accountId == rq.result.accountId
        failedLogins == rq.result.failedLogins + 1
        increment == Stmt("LOGIN_UPD_BNET_FAILED_LOGINS", EmptyStr, accountId, 0)
        ban == IF c.banType = "BAN_ACCOUNT"
               THEN Stmt("LOGIN_INS_BNET_ACCOUNT_AUTO_BANNED", EmptyStr, accountId, c.banTime)
               ELSE Stmt("LOGIN_INS_IP_AUTO_BANNED", rq.addr, 0, c.banTime)
        reset == Stmt("LOGIN_UPD_BNET_RESET_FAILED_LOGINS", EmptyStr, accountId, 0)
    IN IF rq.result.isBanned THEN << >>
       ELSE << Operation(rq.id, "transaction",
                         IF c.maxWrongPassword > 0 /\ failedLogins >= c.maxWrongPassword
                         THEN << increment, ban, reset >>
                         ELSE << increment >>) >>

\* WrongPasswordOps without the test of isBanned
WrongPasswordOps_IgnoresBan(rq, c) ==
    LET accountId == rq.result.accountId
        failedLogins == rq.result.failedLogins + 1
        increment == Stmt("LOGIN_UPD_BNET_FAILED_LOGINS", EmptyStr, accountId, 0)
        ban == IF c.banType = "BAN_ACCOUNT"
               THEN Stmt("LOGIN_INS_BNET_ACCOUNT_AUTO_BANNED", EmptyStr, accountId, c.banTime)
               ELSE Stmt("LOGIN_INS_IP_AUTO_BANNED", rq.addr, 0, c.banTime)
        reset == Stmt("LOGIN_UPD_BNET_RESET_FAILED_LOGINS", EmptyStr, accountId, 0)
    IN IF c.maxWrongPassword = 0 THEN << >>
       ELSE << Operation(rq.id, "transaction",
                         IF failedLogins >= c.maxWrongPassword
                         THEN << increment, ban, reset >>
                         ELSE << increment >>) >>

\* the wrong-password branch's data-store work: nothing for a banned account or
\* with WrongPass.MaxCount = 0, else one transaction
WrongPasswordOps(rq, c) ==
    LET accountId == rq.result.accountId
        failedLogins == rq.result.failedLogins + 1
        increment == Stmt("LOGIN_UPD_BNET_FAILED_LOGINS", EmptyStr, accountId, 0)
        ban == IF c.banType = "BAN_ACCOUNT"
               THEN Stmt("LOGIN_INS_BNET_ACCOUNT_AUTO_BANNED", EmptyStr, accountId, c.banTime)
               ELSE Stmt("LOGIN_INS_IP_AUTO_BANNED", rq.addr, 0, c.banTime)
        reset == Stmt("LOGIN_UPD_BNET_RESET_FAILED_LOGINS", EmptyStr, accountId, 0)
    IN IF rq.result.isBanned \/ c.maxWrongPassword = 0 THEN << >>
       ELSE << Operation(rq.id, "transaction",
                         IF failedLogins >= c.maxWrongPassword
                         THEN << increment, ban, reset >>
                         ELSE << increment >>) >>

\* a ticket test that never reuses the stored ticket
NeedsNewTicket_Always(loginTicket, loginTicketExpiry, t) == TRUE

NeedsNewTicket(loginTicket, loginTicketExpiry, t) ==
    loginTicket = EmptyStr \/ loginTicketExpiry < t

\* the response of the !result block: DONE, no ticket
UnknownLoginResponse(rq) == SetJson(rq.response, LoginResult("DONE", "", "", FALSE, EmptyStr))

\* a wrong-password block that tells the client so
WrongPasswordResponse_Telling(rq) ==
    [SetJson(rq.response, LoginResult("DONE", "WRONG_PASSWORD", "", FALSE, EmptyStr))
        EXCEPT !.status = "unauthorized"]

\* the response that ends the sentPasswordHash != pass_hash block: DONE, no ticket
WrongPasswordResponse(rq) == SetJson(rq.response, LoginResult("DONE", "", "", FALSE, EmptyStr))


\* LoginSelectCallback that answers with the ticket when it submits the update
LoginSelectCallback_AnswersBeforeUpdate(rq, t, c, k) ==
    IF ~rq.result.found
    THEN Outcome([rq EXCEPT !.response = UnknownLoginResponse(rq)], << >>,
                 << UnknownLoginResponse(rq) >>)
    ELSE IF rq.sentPasswordHash # rq.result.pass_hash
    THEN Outcome([rq EXCEPT !.response = WrongPasswordResponse(rq)], WrongPasswordOps(rq, c),
                 << WrongPasswordResponse(rq) >>)
    ELSE LET loginTicket ==
                 IF NeedsNewTicket(rq.result.loginTicket, rq.result.loginTicketExpiry, t)
                 THEN NewTicket(k)
                 ELSE rq.result.loginTicket
             response == SetJson(rq.response, LoginResult("DONE", "", "", TRUE, loginTicket))
         IN Outcome([rq EXCEPT !.ticket = loginTicket, !.response = response],
                    << Operation(rq.id, "query",
                                 << Stmt("LOGIN_UPD_BNET_AUTHENTICATION", loginTicket,
                                         t + c.loginTicketDuration, rq.result.accountId) >>) >>,
                    << response >>)

\* LoginSelectCallback that gives a banned account no ticket
LoginSelectCallback_BanWithholdsTicket(rq, t, c, k) ==
    IF ~rq.result.found
    THEN Outcome([rq EXCEPT !.response = UnknownLoginResponse(rq)], << >>,
                 << UnknownLoginResponse(rq) >>)
    ELSE IF rq.sentPasswordHash # rq.result.pass_hash
    THEN Outcome([rq EXCEPT !.response = WrongPasswordResponse(rq)], WrongPasswordOps(rq, c),
                 << WrongPasswordResponse(rq) >>)
    ELSE IF rq.result.isBanned
    THEN Outcome([rq EXCEPT !.response = UnknownLoginResponse(rq)], << >>,
                 << UnknownLoginResponse(rq) >>)
    ELSE LET loginTicket ==
                 IF NeedsNewTicket(rq.result.loginTicket, rq.result.loginTicketExpiry, t)
                 THEN NewTicket(k)
                 ELSE rq.result.loginTicket
         IN Outcome([rq EXCEPT !.ticket = loginTicket],
                    << Operation(rq.id, "query",
                                 << Stmt("LOGIN_UPD_BNET_AUTHENTICATION", loginTicket,
                                         t + c.loginTicketDuration, rq.result.accountId) >>) >>,
                    << >>)

\* LoginSelectCallback that drops the request of a banned account with a wrong
\* password: no response, nothing chained
LoginSelectCallback_DropsBanned(rq, t, c, k) ==
    IF ~rq.result.found
    THEN Outcome([rq EXCEPT !.response = UnknownLoginResponse(rq)], << >>,
                 << UnknownLoginResponse(rq) >>)
    ELSE IF rq.sentPasswordHash # rq.result.pass_hash
    THEN IF rq.result.isBanned
         THEN Outcome(rq, << >>, << >>)
         ELSE Outcome([rq EXCEPT !.response = WrongPasswordResponse(rq)], WrongPasswordOps(rq, c),
                      << WrongPasswordResponse(rq) >>)
    ELSE LET loginTicket ==
                 IF NeedsNewTicket(rq.result.loginTicket, rq.result.loginTicketExpiry, t)
                 THEN NewTicket(k)
                 ELSE rq.result.loginTicket
         IN Outcome([rq EXCEPT !.ticket = loginTicket],
                    << Operation(rq.id, "query",
                                 << Stmt("LOGIN_UPD_BNET_AUTHENTICATION", loginTicket,
                                         t + c.loginTicketDuration, rq.result.accountId) >>) >>,
                    << >>)

\* k is the index of the next call of GetRandomBytes; t is the clock second of
\* the run, read by both time(nullptr) calls of the matching branch
LoginSelectCallback(rq, t, c, k) ==
    IF ~rq.result.found
    THEN Outcome([rq EXCEPT !.response = UnknownLoginResponse(rq)], << >>,
                 << UnknownLoginResponse(rq) >>)
    ELSE IF rq.sentPasswordHash # rq.result.pass_hash
    THEN Outcome([rq EXCEPT !.response = WrongPasswordResponse(rq)], WrongPasswordOps(rq, c),
                 << WrongPasswordResponse(rq) >>)
    ELSE LET loginTicket ==
                 IF NeedsNewTicket(rq.result.loginTicket, rq.result.loginTicketExpiry, t)
                 THEN NewTicket(k)
                 ELSE rq.result.loginTicket
         IN Outcome([rq EXCEPT !.ticket = loginTicket],
                    << Operation(rq.id, "query",
                                 << Stmt("LOGIN_UPD_BNET_AUTHENTICATION", loginTicket,
                                         t + c.loginTicketDuration, rq.result.accountId) >>) >>,
                    << >>)

LoginUpdateCallback(rq) ==
    LET response == SetJson(rq.response, LoginResult("DONE", "", "", TRUE, rq.ticket))
    IN Outcome([rq EXCEPT !.response = response], << >>, << response >>)

(***************************************************************************)
(* State.                                                                  *)
(*   now        the clock, in seconds                                      *)
(*   cfg        the configuration read through sConfigMgr                  *)
(*   db         the tables of the login database                           *)
(*   req        the request in each slot: inputs, captured values, position*)
(*   queue      the operations submitted to the store and not yet executed *)
(*   entropy    the number of GetRandomBytes calls made so far             *)
(*   sent       per request, the responses written to its connection       *)
(*   submitted  per request, the operations it submitted, in order         *)
(*   applied    per request, the statements the store executed for it      *)
(***************************************************************************)
VARIABLES now, cfg, db, req, queue, entropy, sent, submitted, applied

vars == <<now, cfg, db, req, queue, entropy, sent, submitted, applied>>

Range(f) == {f[i] : i \in DOMAIN f}

Configurations ==
    [maxWrongPassword : 0..MaxWrongPass,
     banType : {"BAN_IP", "BAN_ACCOUNT"},
     banTime : 1..MaxBanTime,
     loginTicketDuration : 1..MaxDuration]

\* an account row as the service may find it at startup: any number of failed
\* logins counted so far; never logged in, or holding the ticket of an earlier
\* run that expires at second 1
InitialAccounts ==
    {[failed_logins |-> f, LoginTicket |-> tk[1], LoginTicketExpiry |-> tk[2]] :
        f \in 0..MaxWrongPass, tk \in {<<EmptyStr, 0>>, <<NewTicket(0), 1>>}}

\* the forms clients post: undecodable; "a"/"pw" (the account's credentials in
\* lower case); "A"/"NO" (wrong password); "Z"/"PW" (no such account)
LoginForms ==
    {NoForm,
     LoginForm(TRUE, << FormInput("account_name", <<97>>), FormInput("password", <<112, 119>>) >>),
     LoginForm(TRUE, << FormInput("password", <<78, 79>>), FormInput("account_name", <<65>>) >>),
     LoginForm(TRUE, << FormInput("account_name", <<90>>), FormInput("password", <<80, 87>>) >>)}

\* an account is not banned or permanently banned (bandate = unbandate); no
\* address is banned
Init ==
    /\ now = 0
    /\ cfg \in Configurations
    /\ db \in [accounts : [AccountIds -> InitialAccounts],
               account_bans : [AccountIds -> {NoBan, Ban(0, 0)}],
               ip_banned : [ClientAddresses -> {NoBan}]]
    /\ req = [r \in Requests |-> NewRequest(r)]
    /\ queue = {}
    /\ entropy = 0
    /\ sent = [r \in Requests |-> << >>]
    /\ submitted = [r \in Requests |-> << >>]
    /\ applied = [r \in Requests |-> << >>]

\* time passes
Tick ==
    /\ now < MaxTime
    /\ now' = now + 1
    /\ UNCHANGED <<cfg, db, req, queue, entropy, sent, submitted, applied>>

\* slots are filled in order
Free(r) == req[r].pc = "new" /\ \A q \in Requests : q < r => req[q].pc # "new"

\* the transport's dispatch of a request to its handler: a handler that returns
\* Handled has its context's response sent by the transport, one that returns
\* Async answers from its continuation
Dispatch(r, out) ==
    LET handled == out.rq.handlerResult = "Handled"
    IN /\ req' = [req EXCEPT ![r] = [out.rq EXCEPT !.pc = IF handled THEN "done" ELSE "selectQueued"]]
       /\ sent' = [sent EXCEPT ![r] = @ \o out.sends \o
                                       (IF handled THEN << out.rq.response >> ELSE << >>)]
       /\ queue' = queue \cup Range(out.ops)
       /\ submitted' = [submitted EXCEPT ![r] = @ \o out.ops]
       /\ UNCHANGED <<now, cfg, db, entropy, applied>>

\* a request as it arrives; addr is the session's remote address, kept for the
\* handlers that read it, addressIndex what SelectAddressForClient returns for it
Arrival(r, kind) == [NewRequest(r) EXCEPT !.kind = kind]

GetForm(r) ==
    /\ Free(r)
    /\ Dispatch(r, HandleGetForm(Arrival(r, "form")))

GetPortal(r) ==
    /\ Free(r)
    /\ \E addr \in ClientAddresses, sel \in {"none", "0", "1"} :
          Dispatch(r, HandleGetPortal([Arrival(r, "portal") EXCEPT !.addr = addr,
                                                                    !.addressIndex = sel], sel))

GetGameAccounts(r) ==
    /\ Free(r)
    /\ \E header \in AuthorizationHeaders :
          Dispatch(r, HandleGetGameAccounts([Arrival(r, "gameAccounts") EXCEPT !.header = header]))

PostLogin(r) ==
    /\ Free(r)
    /\ \E addr \in ClientAddresses, form \in LoginForms :
          Dispatch(r, HandlePostLogin([Arrival(r, "login") EXCEPT !.addr = addr, !.form = form]))

PostRefreshLoginTicket(r) ==
    /\ Free(r)
    /\ \E header \in AuthorizationHeaders :
          Dispatch(r, HandlePostRefreshLoginTicket([Arrival(r, "refresh") EXCEPT !.header = header]))

\* the store executes one queued operation, all its statements at once; a
\* query's completion makes the request's continuation runnable (the chained
\* update's continuation ignores its result, so result keeps the select's row)
DbExecute(op) ==
    /\ op \in queue
    /\ db' = ApplyAll(db, op.stmts, now)
    /\ queue' = queue \ {op}
    /\ applied' = [applied EXCEPT ![op.req] = @ \o [i \in 1..Len(op.stmts) |-> op.stmts[i].id]]
    /\ req' = IF op.kind = "query" /\ req[op.req].pc = "selectQueued"
              THEN [req EXCEPT ![op.req].result = QueryResult(db, op.stmts[1], now),
                               ![op.req].pc = "selectReady"]
              ELSE IF op.kind = "query"
              THEN [req EXCEPT ![op.req].pc = "updateReady"]
              ELSE req
    /\ UNCHANGED <<now, cfg, entropy, sent, submitted>>

\* a continuation ran: its request moves to pc, its operations are queued
Continue(r, out, pc) ==
    /\ req' = [req EXCEPT ![r] = [out.rq EXCEPT !.pc = pc]]
    /\ sent' = [sent EXCEPT ![r] = @ \o out.sends]
    /\ queue' = queue \cup Range(out.ops)
    /\ submitted' = [submitted EXCEPT ![r] = @ \o out.ops]
    /\ UNCHANGED <<now, cfg, db, applied>>

RunGameAccountsCallback(r) ==
    /\ req[r].kind = "gameAccounts" /\ req[r].pc = "selectReady"
    /\ Continue(r, GameAccountsCallback(req[r], now), "done")
    /\ UNCHANGED entropy

RunRefreshCallback(r) ==
    /\ req[r].kind = "refresh" /\ req[r].pc = "selectReady"
    /\ Continue(r, RefreshCallback(req[r], now, cfg), "done")
    /\ UNCHANGED entropy

RunLoginSelectCallback(r) ==
    /\ req[r].kind = "login" /\ req[r].pc = "selectReady"
    /\ LET out == LoginSelectCallback(req[r], now, cfg, entropy + 1)
           chained == out.sends = << >>
       IN /\ Continue(r, out, IF chained THEN "updateQueued" ELSE "done")
          /\ entropy' = IF chained /\ out.rq.ticket # req[r].result.loginTicket
                        THEN entropy + 1 ELSE entropy

RunLoginUpdateCallback(r) ==
    /\ req[r].kind = "login" /\ req[r].pc = "updateReady"
    /\ Continue(r, LoginUpdateCallback(req[r]), "done")
    /\ UNCHANGED entropy

Next ==
    \/ Tick
    \/ \E r \in Requests : GetForm(r)
    \/ \E r \in Requests : GetPortal(r)
    \/ \E r \in Requests : GetGameAccounts(r)
    \/ \E r \in Requests : PostLogin(r)
    \/ \E r \in Requests : PostRefreshLoginTicket(r)
    \/ \E op \in queue : DbExecute(op)
    \/ \E r \in Requests : RunGameAccountsCallback(r)
    \/ \E r \in Requests : RunRefreshCallback(r)
    \/ \E r \in Requests : RunLoginSelectCallback(r)
    \/ \E r \in Requests : RunLoginUpdateCallback(r)

Spec == Init /\ [][Next]_vars

(***************************************************************************)
(* Narrower workloads of the same service.  SpecLogin: only POST /login    *)
(* arrives.  SpecTicket: POST /login and POST /refreshLoginTicket.         *)
(* SpecAuth: the two handlers that need a ticket.  SpecSeq: logins one at  *)
(* a time, each arriving when the one before has been answered and the     *)
(* store has executed everything submitted.                                *)
(***************************************************************************)
NextLogin ==
    \/ Tick
    \/ \E r \in Requests : PostLogin(r)
    \/ \E op \in queue : DbExecute(op)
    \/ \E r \in Requests : RunLoginSelectCallback(r)
    \/ \E r \in Requests : RunLoginUpdateCallback(r)

SpecLogin == Init /\ [][NextLogin]_vars

NextTicket ==
    \/ Tick
    \/ \E r \in Requests : PostLogin(r)
    \/ \E r \in Requests : PostRefreshLoginTicket(r)
    \/ \E op \in queue : DbExecute(op)
    \/ \E r \in Requests : RunLoginSelectCallback(r)
    \/ \E r \in Requests : RunLoginUpdateCallback(r)
    \/ \E r \in Requests : RunRefreshCallback(r)

SpecTicket == Init /\ [][NextTicket]_vars

NextAuth ==
    \/ Tick
    \/ \E r \in Requests : GetGameAccounts(r)
    \/ \E r \in Requests : PostRefreshLoginTicket(r)
    \/ \E op \in queue : DbExecute(op)
    \/ \E r \in Requests : RunGameAccountsCallback(r)
    \/ \E r \in Requests : RunRefreshCallback(r)

SpecAuth == Init /\ [][NextAuth]_vars

Quiescent == queue = {} /\ \A r \in Requests : req[r].pc \in {"new", "done"}

NextSeq ==
    \/ Tick
    \/ \E r \in Requests : Quiescent /\ PostLogin(r)
    \/ \E op \in queue : DbExecute(op)
    \/ \E r \in Requests : RunLoginSelectCallback(r)
    \/ \E r \in Requests : RunLoginUpdateCallback(r)

SpecSeq == Init /\ [][NextSeq]_vars

(***************************************************************************)
(* What a login request turned out to be, once its account lookup has run. *)
(***************************************************************************)
LookedUp(r) ==
    /\ req[r].kind = "login"
    /\ req[r].pc \in {"selectReady", "updateQueued", "updateReady", "done"}
    /\ req[r].handlerResult = "Async"

UnknownLogin(r) == LookedUp(r) /\ ~req[r].result.found

WrongPassword(r) ==
    /\ LookedUp(r)
    /\ req[r].result.found
    /\ req[r].sentPasswordHash # req[r].result.pass_hash

RightPassword(r) ==
    /\ LookedUp(r)
    /\ req[r].result.found
    /\ req[r].sentPasswordHash = req[r].result.pass_hash

Answered(r) == req[r].pc = "done"

StmtIds(r) == {applied[r][i] : i \in DOMAIN applied[r]}

(***************************************************************************)
(* C1.  Every request gets exactly one response: never two responses on    *)
(* the connection for one request, and an answered request has one.  The   *)
(* responses counted are those the handler and its continuations send and  *)
(* the one the transport sends for a handler that returns Handled.         *)
(***************************************************************************)
C1_ExactlyOneResponse ==
    \A r \in Requests :
        /\ Len(sent[r]) <= 1
        /\ Answered(r) => Len(sent[r]) = 1

(***************************************************************************)
(* C2.  Enumeration safety: a login for a name no account has and a login  *)
(* for an existing account with a wrong password are answered with the     *)
(* same response: status 200, state DONE, no ticket, no error code, no     *)
(* error message - whatever the account's ban state, failed-login counter  *)
(* and the WrongPass configuration.                                        *)
(***************************************************************************)
NonDistinguishingResponse ==
    [status |-> "ok", content_type |-> JSON_CONTENT,
     body |-> [type |-> "LoginResult", authentication_state |-> "DONE", error_code |-> "",
               error_message |-> "", has_login_ticket |-> FALSE, login_ticket |-> EmptyStr]]

C2_EnumerationSafe ==
    \A r1, r2 \in Requests :
        (Answered(r1) /\ UnknownLogin(r1) /\ Answered(r2) /\ WrongPassword(r2))
            => /\ sent[r1] = sent[r2]
               /\ sent[r2] = << NonDistinguishingResponse >>

C2_Witness ==
    \E r1, r2 \in Requests :
        /\ Answered(r1) /\ UnknownLogin(r1)
        /\ Answered(r2) /\ WrongPassword(r2)
        /\ req[r2].result.isBanned
        /\ cfg.maxWrongPassword > 0

(***************************************************************************)
(* Failed logins, one request at a time (SpecSeq).                         *)
(***************************************************************************)
\* r is the request that arrived last
Latest(r) == req[r].pc # "new" /\ \A q \in Requests : q > r => req[q].pc = "new"

\* r is the last request, it is answered and the store has nothing left to do
Settled(r) == Latest(r) /\ Answered(r) /\ queue = {}

BanStmts == {"LOGIN_INS_BNET_ACCOUNT_AUTO_BANNED", "LOGIN_INS_IP_AUTO_BANNED"}

BanInsertions(r) == Cardinality({i \in DOMAIN applied[r] : applied[r][i] \in BanStmts})

\* r is the wrong-password attempt that brings an unbanned account's counter to
\* the configured maximum
ThresholdAttempt(r) ==
    /\ WrongPassword(r)
    /\ ~req[r].result.isBanned
    /\ cfg.maxWrongPassword > 0
    /\ req[r].result.failedLogins + 1 = cfg.maxWrongPassword

\* the ban the transaction of r inserted is in the table its ban mode names
BanRecorded(r) ==
    LET ban == IF cfg.banType = "BAN_ACCOUNT"
               THEN db.account_bans[req[r].result.accountId]
               ELSE db.ip_banned[req[r].addr]
    IN ban.banned /\ ban.unbandate = ban.bandate + cfg.banTime

\* r submitted, besides its lookup, one transaction of increment, ban, reset
OneBanTransaction(r) ==
    /\ Len(submitted[r]) = 2
    /\ submitted[r][2].kind = "transaction"
    /\ Len(submitted[r][2].stmts) = 3
    /\ submitted[r][2].stmts[1].id = "LOGIN_UPD_BNET_FAILED_LOGINS"
    /\ submitted[r][2].stmts[2].id \in BanStmts
    /\ submitted[r][2].stmts[3].id = "LOGIN_UPD_BNET_RESET_FAILED_LOGINS"

NthFailedLoginBansAndResets ==
    \A r \in Requests :
        (ThresholdAttempt(r) /\ Settled(r))
            => /\ OneBanTransaction(r)
               /\ BanInsertions(r) = 1
               /\ BanRecorded(r)
               /\ db.accounts[req[r].result.accountId].failed_logins = 0

\* r2 is the failed login after the threshold attempt r, for the same account
NextFailedLogin(r, r2) ==
    /\ r2 = r + 1
    /\ ThresholdAttempt(r)
    /\ WrongPassword(r2)
    /\ req[r2].result.accountId = req[r].result.accountId
    /\ Settled(r2)

(***************************************************************************)
(* C3 as stated.  With WrongPass.MaxCount = N > 0, in both ban modes, the  *)
(* Nth failed login inserts exactly one ban and resets the stored counter  *)
(* to 0 in the same transaction, and the failed login after it leaves the  *)
(* stored counter at 1.                                                    *)
(***************************************************************************)
C3_Original ==
    /\ NthFailedLoginBansAndResets
    /\ \A r, r2 \in Requests :
          NextFailedLogin(r, r2)
              => db.accounts[req[r].result.accountId].failed_logins = 1

(***************************************************************************)
(* C3 amended.  The Nth failed login inserts exactly one ban and resets    *)
(* the stored counter to 0 in the same transaction.  The failed login      *)
(* after it leaves the stored counter at 1 when N > 1 and its lookup does  *)
(* not report the account banned, and at 0 otherwise: when the lookup      *)
(* reports the account banned (the account-scoped ban is still running)    *)
(* nothing is written, and when N = 1 it bans and resets again.  The       *)
(* counter is never N + 1.                                                 *)
(***************************************************************************)
C3_Amended ==
    /\ NthFailedLoginBansAndResets
    /\ \A r, r2 \in Requests :
          NextFailedLogin(r, r2)
              => db.accounts[req[r].result.accountId].failed_logins =
                    (IF req[r2].result.isBanned \/ cfg.maxWrongPassword = 1 THEN 0 ELSE 1)

C3_Witness ==
    \E r, r2 \in Requests :
        /\ NextFailedLogin(r, r2)
        /\ cfg.maxWrongPassword > 1
        /\ ~req[r2].result.isBanned
        /\ BanInsertions(r) = 1
        /\ db.accounts[req[r].result.accountId].failed_logins = 1

(***************************************************************************)
(* C4.  With WrongPass.MaxCount = 0 no step - in particular no failed      *)
(* login - changes any account's stored failed-login counter or inserts a  *)
(* ban record, and a failed login submits nothing but its lookup.          *)
(***************************************************************************)
C4_GuardDisabled ==
    [][cfg.maxWrongPassword = 0
          => /\ \A a \in AccountIds :
                   db'.accounts[a].failed_logins = db.accounts[a].failed_logins
             /\ db'.account_bans = db.account_bans
             /\ db'.ip_banned = db.ip_banned
             /\ \A r \in Requests : WrongPassword(r)' => Len(submitted'[r]) = 1]_vars

C4_Witness ==
    \E r \in Requests :
        /\ cfg.maxWrongPassword = 0
        /\ Answered(r)
        /\ WrongPassword(r)
        /\ ~req[r].result.isBanned
        /\ db.accounts[req[r].result.accountId].failed_logins = req[r].result.failedLogins

(***************************************************************************)
(* Refresh.                                                                *)
(***************************************************************************)
IsRefresh(r) == req[r].kind = "refresh"

\* the step is the continuation of refresh request r
RefreshContinuationStep(r) ==
    IsRefresh(r) /\ req[r].pc = "selectReady" /\ req'[r].pc = "done"

\* the ticket r presented is live when its continuation runs
RefreshLive(r) == req[r].result.found /\ req[r].result.loginTicketExpiry > now

\* refresh request r was answered with a new expiry
Renewed(r) ==
    /\ IsRefresh(r) /\ Answered(r)
    /\ sent[r][1].body.type = "LoginRefreshResult"
    /\ sent[r][1].body.has_login_ticket_expiry

\* the step is the store executing an operation of a refresh request
RefreshStoreStep(op) == op \in queue /\ op \notin queue' /\ IsRefresh(op.req)

(***************************************************************************)
(* C5.  No operation of a refresh request changes any account's ticket     *)
(* string.  When the continuation of a refresh finds no account for the    *)
(* ticket, or an expiry at or before the current time, it answers with the *)
(* is-expired flag set and no new expiry, and submits nothing: the store   *)
(* is not written.                                                         *)
(***************************************************************************)
C5_ExpiredRefreshWritesNothing ==
    [][/\ \A op \in queue :
             RefreshStoreStep(op)
                 => \A a \in AccountIds :
                        db'.accounts[a].LoginTicket = db.accounts[a].LoginTicket
       /\ \A r \in Requests :
             (RefreshContinuationStep(r) /\ ~RefreshLive(r))
                 => /\ sent'[r] = << SetJson(NewResponse, LoginRefreshResult(FALSE, 0, TRUE)) >>
                    /\ submitted'[r] = submitted[r]
                    /\ queue' = queue
                    /\ db' = db]_vars

\* a refresh of a ticket that expires this very second was answered "expired"
C5_Witness ==
    \E r \in Requests :
        /\ IsRefresh(r) /\ Answered(r)
        /\ sent[r][1].body.type = "LoginRefreshResult"
        /\ req[r].result.found
        /\ req[r].result.loginTicketExpiry = now
        /\ sent[r][1].body.is_expired
        /\ Len(submitted[r]) = 1

(***************************************************************************)
(* C6 as stated.  A refresh of a ticket whose stored expiry E is after the *)
(* current time writes and returns the expiry E + D, D the configured      *)
(* ticket duration.                                                        *)
(***************************************************************************)
C6_Original ==
    \A r \in Requests :
        Renewed(r)
            => /\ sent[r][1].body.login_ticket_expiry
                     = req[r].result.loginTicketExpiry + cfg.loginTicketDuration
               /\ submitted[r][2].stmts[1].n0
                     = req[r].result.loginTicketExpiry + cfg.loginTicketDuration

(***************************************************************************)
(* C6 amended.  A refresh of a ticket whose stored expiry is after the     *)
(* current time now sets the expiry to now + D, not to E + D: the          *)
(* continuation answers now + D and submits one update of the presented    *)
(* ticket's expiry to now + D, and when the store executes that update     *)
(* every account holding the ticket gets that expiry and no other account  *)
(* changes.                                                                *)
(***************************************************************************)
C6_Amended ==
    [][/\ \A r \in Requests :
             (RefreshContinuationStep(r) /\ RefreshLive(r))
                 => /\ sent'[r] = << SetJson(NewResponse,
                                             LoginRefreshResult(TRUE, now + cfg.loginTicketDuration, FALSE)) >>
                    /\ Len(submitted'[r]) = 2
                    /\ submitted'[r][2].stmts =
                          << Stmt("LOGIN_UPD_BNET_EXISTING_AUTHENTICATION", req[r].ticket,
                                  now + cfg.loginTicketDuration, 0) >>
                    /\ submitted'[r][2] \in queue'
       /\ \A op \in queue :
             (RefreshStoreStep(op) /\ op.kind = "execute")
                 => \A a \in AccountIds :
                        db'.accounts[a] =
                           IF db.accounts[a].LoginTicket = op.stmts[1].str
                           THEN [db.accounts[a] EXCEPT !.LoginTicketExpiry =
                                                           sent[op.req][1].body.login_ticket_expiry]
                           ELSE db.accounts[a]]_vars

\* a refresh was answered with a new expiry and the store holds that expiry
C6_Witness ==
    \E r \in Requests, a \in AccountIds :
        /\ Renewed(r)
        /\ "LOGIN_UPD_BNET_EXISTING_AUTHENTICATION" \in StmtIds(r)
        /\ db.accounts[a].LoginTicket = req[r].ticket
        /\ db.accounts[a].LoginTicketExpiry = sent[r][1].body.login_ticket_expiry
        /\ sent[r][1].body.login_ticket_expiry < req[r].result.loginTicketExpiry + cfg.loginTicketDuration

(***************************************************************************)
(* Issue or reuse of the ticket at a successful login.                     *)
(***************************************************************************)
\* the LOGIN_UPD_BNET_AUTHENTICATION statement of a login that matched
AuthenticationUpdate(r) == submitted[r][2].stmts[1]

\* login r matched, was answered with a ticket, and its update is in the store
SuccessfulLogin(r) ==
    /\ RightPassword(r) /\ Answered(r)
    /\ "LOGIN_UPD_BNET_AUTHENTICATION" \in StmtIds(r)

\* the clock second in which the continuation of the successful login r ran
LoginTime(r) == AuthenticationUpdate(r).n0 - cfg.loginTicketDuration

\* r gave the account a ticket, and r2 is the next login, with correct
\* credentials for the same account, before the expiry r stored
SecondLogin(r, r2) ==
    /\ r2 = r + 1
    /\ SuccessfulLogin(r) /\ SuccessfulLogin(r2)
    /\ req[r2].result.accountId = req[r].result.accountId
    /\ Settled(r2)
    /\ LoginTime(r2) < AuthenticationUpdate(r).n0

SameTicket(r, r2) ==
    /\ sent[r2][1].body.has_login_ticket
    /\ sent[r2][1].body.login_ticket = sent[r][1].body.login_ticket
    /\ db.accounts[req[r].result.accountId].LoginTicket = sent[r][1].body.login_ticket

(***************************************************************************)
(* C7 as stated.  A second login with the same correct credentials within  *)
(* the validity window of the ticket the first login gave returns the same *)
(* ticket string, and the stored expiry after it is strictly greater than  *)
(* after the first login.                                                  *)
(***************************************************************************)
C7_Original ==
    \A r, r2 \in Requests :
        SecondLogin(r, r2)
            => /\ SameTicket(r, r2)
               /\ db.accounts[req[r].result.accountId].LoginTicketExpiry
                     > AuthenticationUpdate(r).n0

(***************************************************************************)
(* C7 amended.  The second login returns the same ticket string, and the   *)
(* stored expiry after it is the clock second of the second login plus the *)
(* ticket duration: never less than after the first login, strictly        *)
(* greater exactly when the second login runs in a later clock second, and *)
(* equal when both run within the same second.                             *)
(***************************************************************************)
C7_Amended ==
    \A r, r2 \in Requests :
        SecondLogin(r, r2)
            => LET expiry == db.accounts[req[r].result.accountId].LoginTicketExpiry
               IN /\ SameTicket(r, r2)
                  /\ expiry = AuthenticationUpdate(r2).n0
                  /\ expiry >= AuthenticationUpdate(r).n0
                  /\ (expiry > AuthenticationUpdate(r).n0) <=> (LoginTime(r2) > LoginTime(r))

\* a second login a second later got the same ticket and a later expiry
C7_Witness ==
    \E r, r2 \in Requests :
        /\ SecondLogin(r, r2)
        /\ LoginTime(r2) > LoginTime(r)
        /\ sent[r2][1].body.login_ticket = sent[r][1].body.login_ticket
        /\ db.accounts[req[r].result.accountId].LoginTicketExpiry > AuthenticationUpdate(r).n0

\* the step is the continuation of a login that matched
IssueOrReuseStep(r) ==
    req[r].kind = "login" /\ req[r].pc = "selectReady" /\ req'[r].pc = "updateQueued"

(***************************************************************************)
(* C8 as stated.  At a successful login a new ticket is generated if and   *)
(* only if the stored ticket is empty or the stored expiry is at or before *)
(* the current time (expiry = now included); otherwise the stored ticket   *)
(* is returned unchanged.                                                  *)
(***************************************************************************)
C8_NewTicketIffEmptyOrExpired ==
    [][\A r \in Requests :
          IssueOrReuseStep(r)
              => IF \/ req[r].result.loginTicket = EmptyStr
                    \/ req[r].result.loginTicketExpiry <= now
                 THEN /\ entropy' = entropy + 1
                      /\ req'[r].ticket = NewTicket(entropy')
                 ELSE /\ entropy' = entropy
                      /\ req'[r].ticket = req[r].result.loginTicket]_vars

(***************************************************************************)
(* The bruteforce guard under interleaving.                                *)
(***************************************************************************)
\* r is a wrong-password attempt whose increment reaches the configured maximum
ReachedThreshold(r) ==
    /\ WrongPassword(r)
    /\ ~req[r].result.isBanned
    /\ cfg.maxWrongPassword > 0
    /\ req[r].result.failedLogins + 1 >= cfg.maxWrongPassword

(***************************************************************************)
(* C9.  In every reachable state, other requests interleaved or not, the   *)
(* store has executed for an attempt that reached the threshold either     *)
(* none of increment, ban insertion and reset, or all of them: the         *)
(* increment is never visible without the ban and the reset, nor the ban   *)
(* without the reset.                                                      *)
(***************************************************************************)
C9_GuardIsAtomic ==
    \A r \in Requests :
        ReachedThreshold(r)
            => /\ "LOGIN_UPD_BNET_FAILED_LOGINS" \in StmtIds(r)
                     => /\ StmtIds(r) \cap BanStmts # {}
                        /\ "LOGIN_UPD_BNET_RESET_FAILED_LOGINS" \in StmtIds(r)
               /\ StmtIds(r) \cap BanStmts # {}
                     => "LOGIN_UPD_BNET_RESET_FAILED_LOGINS" \in StmtIds(r)

\* the guard's transaction was committed while another request was in flight
C9_Witness ==
    \E r, q \in Requests :
        /\ q # r
        /\ ReachedThreshold(r)
        /\ applied[r] = << "LOGIN_SEL_BNET_AUTHENTICATION", "LOGIN_UPD_BNET_FAILED_LOGINS",
                           IF cfg.banType = "BAN_ACCOUNT"
                           THEN "LOGIN_INS_BNET_ACCOUNT_AUTO_BANNED"
                           ELSE "LOGIN_INS_IP_AUTO_BANNED",
                           "LOGIN_UPD_BNET_RESET_FAILED_LOGINS" >>
        /\ req[q].pc \notin {"new", "done"}

(***************************************************************************)
(* Authorization of the ticket-bearing requests.                           *)
(***************************************************************************)
TicketBearing(r) == req[r].kind \in {"gameAccounts", "refresh"}

\* what the payload of each header clients send base64-decodes to
DecodedPayload ==
    [header \in AuthorizationHeaders |-> Base64Decode(StripBasicPrefix(header.value))]

\* the bytes the authorization header of r decodes to
DecodedAuthorization(r) == DecodedPayload[req[r].header]

\* the header of r is absent, does not decode, or has nothing before the first ':'
NothingBeforeColon(r) ==
    \/ ~req[r].header.present
    \/ ~DecodedAuthorization(r).ok
    \/ DecodedAuthorization(r).bytes = EmptyStr
    \/ DecodedAuthorization(r).bytes[1] = COLON

\* key is the text of the decoded header before its first ':'
IsTextBeforeColon(key, decoded) ==
    /\ Len(key) <= Len(decoded)
    /\ \A i \in 1..Len(key) : key[i] = decoded[i] /\ key[i] # COLON
    /\ Len(key) = Len(decoded) \/ decoded[Len(key) + 1] = COLON

Lookups(r) == {i \in DOMAIN submitted[r] : submitted[r][i].kind = "query"}

(***************************************************************************)
(* C10.  For GET game-accounts and POST refresh-ticket: when the header is *)
(* absent, its payload does not base64-decode, or the decoded text has     *)
(* nothing before the first ':', the request is answered unauthorized by   *)
(* the handler itself, submits no data-store operation and is never        *)
(* pending; otherwise the handler submits exactly one lookup, keyed by the *)
(* text before the first ':'.                                              *)
(***************************************************************************)
C10_EmptyTicketUnauthorized ==
    \A r \in Requests :
        TicketBearing(r)
            => IF NothingBeforeColon(r)
               THEN /\ req[r].pc = "done"
                    /\ req[r].handlerResult = "Handled"
                    /\ sent[r] = << [NewResponse EXCEPT !.status = "unauthorized"] >>
                    /\ submitted[r] = << >>
                    /\ applied[r] = << >>
               ELSE /\ req[r].handlerResult = "Async"
                    /\ Cardinality(Lookups(r)) = 1
                    /\ submitted[r][1].kind = "query"
                    /\ Len(submitted[r][1].stmts) = 1
                    /\ submitted[r][1].stmts[1].id =
                          (IF req[r].kind = "refresh"
                           THEN "LOGIN_SEL_BNET_EXISTING_AUTHENTICATION"
                           ELSE "LOGIN_SEL_BNET_GAME_ACCOUNT_LIST")
                    /\ IsTextBeforeColon(submitted[r][1].stmts[1].str,
                                         DecodedAuthorization(r).bytes)

\* one request whose decoded header starts with ':' was turned away, another
\* was looked up by the text before the ':' of its header
C10_Witness ==
    \E r, q \in Requests :
        /\ TicketBearing(r) /\ TicketBearing(q)
        /\ req[r].header.present /\ DecodedAuthorization(r).ok
        /\ DecodedAuthorization(r).bytes = <<COLON, 120>>
        /\ sent[r] = << [NewResponse EXCEPT !.status = "unauthorized"] >>
        /\ req[q].header.present /\ DecodedAuthorization(q).ok
        /\ DecodedAuthorization(q).bytes = NewTicket(0) \o <<COLON, 120>>
        /\ Len(submitted[q]) >= 1
        /\ submitted[q][1].stmts[1].str = NewTicket(0)
        /\ req[q].pc = "done"

(***************************************************************************)
(* Progress of the asynchronous chains.                                    *)
(***************************************************************************)
\* the requests whose handler hands work to the store
NextChains ==
    \/ Tick
    \/ \E r \in Requests : GetGameAccounts(r)
    \/ \E r \in Requests : PostLogin(r)
    \/ \E r \in Requests : PostRefreshLoginTicket(r)
    \/ \E op \in queue : DbExecute(op)
    \/ \E r \in Requests : RunGameAccountsCallback(r)
    \/ \E r \in Requests : RunRefreshCallback(r)
    \/ \E r \in Requests : RunLoginSelectCallback(r)
    \/ \E r \in Requests : RunLoginUpdateCallback(r)

\* a step of some chain: the store completes an operation, or a continuation runs
ChainStep ==
    \/ \E op \in queue : DbExecute(op)
    \/ \E r \in Requests : RunGameAccountsCallback(r)
    \/ \E r \in Requests : RunRefreshCallback(r)
    \/ \E r \in Requests : RunLoginSelectCallback(r)
    \/ \E r \in Requests : RunLoginUpdateCallback(r)

\* while an operation is queued or a continuation can run, one of them is
\* eventually taken.  Arrivals and clock ticks never disable a chain step, so
\* this follows from each operation eventually completing and each runnable
\* continuation eventually running.
ChainFairness == WF_vars(ChainStep)

\* the initial states with one ban mode, one ticket duration and no failed
\* login counted yet; the maximum of failed logins (0, 1, more), the ban of the
\* account and its stored ticket vary, and with them what the chains find
InitLive ==
    /\ Init
    /\ cfg.banType = "BAN_ACCOUNT"
    /\ cfg.loginTicketDuration = 1
    /\ cfg.banTime = 1
    /\ \A a \in AccountIds : db.accounts[a].failed_logins = 0

SpecLive == InitLive /\ [][NextChains]_vars /\ ChainFairness

\* the handler of r returned Async and r has not been answered
AsyncChainPending(r) == req[r].handlerResult = "Async" /\ req[r].pc # "done"

ResponseSent(r) == req[r].pc = "done" /\ sent[r] # << >>

(***************************************************************************)
(* C11.  Under the fairness of SpecLive (submitted operations complete,    *)
(* runnable continuations run) every request whose handler returned Async  *)
(* is eventually answered: the login chain, the game-accounts lookup and   *)
(* the refresh lookup never stay pending, whatever their queries return.   *)
(***************************************************************************)
C11_ChainsComplete ==
    \A r \in Requests : AsyncChainPending(r) ~> ResponseSent(r)

\* a login went through both stages of its chain and was answered, and a
\* lookup that found nothing was answered as well
C11_Witness ==
    \E r, q \in Requests :
        /\ req[r].kind = "login" /\ ResponseSent(r) /\ Len(applied[r]) = 2
        /\ applied[r][2] = "LOGIN_UPD_BNET_AUTHENTICATION"
        /\ req[q].kind \in {"gameAccounts", "refresh"}
        /\ req[q].handlerResult = "Async" /\ ResponseSent(q)
        /\ ~req[q].result.found

(***************************************************************************)
(* The bruteforce guard: when it is disabled, and when it is skipped.      *)
(***************************************************************************)
\* r is a wrong-password login on an account its lookup did not report banned,
\* with WrongPass.MaxCount = 0
FailedLoginGuardDisabled(r) ==
    /\ cfg.maxWrongPassword = 0
    /\ WrongPassword(r)
    /\ ~req[r].result.isBanned

(***************************************************************************)
(* C12 as stated.  With WrongPass.MaxCount = 0 a failed login on a         *)
(* non-banned account still increments the stored failed-login counter by  *)
(* one and does nothing else: once it is answered and the store is idle,   *)
(* the store has executed for it its lookup and the increment.             *)
(***************************************************************************)
C12_Original ==
    \A r \in Requests :
        (FailedLoginGuardDisabled(r) /\ Answered(r) /\ queue = {})
            => /\ applied[r] = << "LOGIN_SEL_BNET_AUTHENTICATION", "LOGIN_UPD_BNET_FAILED_LOGINS" >>
               /\ db.accounts[req[r].result.accountId].failed_logins > req[r].result.failedLogins

(***************************************************************************)
(* C12 amended.  With WrongPass.MaxCount = 0 a failed login on a           *)
(* non-banned account does not increment the counter: it submits nothing   *)
(* but its lookup (no increment, no ban insertion, no reset), and the      *)
(* stored counter stays what the lookup read.                              *)
(***************************************************************************)
C12_Amended ==
    \A r \in Requests :
        FailedLoginGuardDisabled(r)
            => /\ Len(submitted[r]) = 1
               /\ submitted[r][1].kind = "query"
               /\ applied[r] = << "LOGIN_SEL_BNET_AUTHENTICATION" >>
               /\ db.accounts[req[r].result.accountId].failed_logins = req[r].result.failedLogins

\* a failed login with the guard disabled was answered, the store is idle and
\* the counter, which was already positive, is what it was
C12_Witness ==
    \E r \in Requests :
        /\ FailedLoginGuardDisabled(r) /\ Answered(r) /\ queue = {}
        /\ req[r].result.failedLogins > 0
        /\ db.accounts[req[r].result.accountId].failed_logins = req[r].result.failedLogins

\* the statements of the bruteforce guard
GuardStmts ==
    {"LOGIN_UPD_BNET_FAILED_LOGINS", "LOGIN_UPD_BNET_RESET_FAILED_LOGINS",
     "LOGIN_INS_BNET_ACCOUNT_AUTO_BANNED", "LOGIN_INS_IP_AUTO_BANNED"}

\* the lookup of login r found no row, or a matching hash, or a mismatch on an
\* account reported banned
GuardSkipped(r) ==
    \/ UnknownLogin(r)
    \/ RightPassword(r)
    \/ WrongPassword(r) /\ req[r].result.isBanned

SubmittedStmtIds(r) ==
    UNION {{submitted[r][i].stmts[j].id : j \in DOMAIN submitted[r][i].stmts} :
              i \in DOMAIN submitted[r]}

(***************************************************************************)
(* C13.  The bruteforce guard runs only for a mismatch on an account not   *)
(* reported banned: a login whose lookup found no row, a login with a      *)
(* matching hash and a mismatching login on a banned account submit no     *)
(* statement of the guard, and the store steps taken for them leave every  *)
(* failed-login counter and every ban record unchanged.                    *)
(***************************************************************************)
C13_GuardOnlyOnUnbannedMismatch ==
    [][/\ \A r \in Requests :
             GuardSkipped(r)' => SubmittedStmtIds(r)' \cap GuardStmts = {}
       /\ \A op \in queue :
             (op \notin queue' /\ GuardSkipped(op.req)')
                 => /\ \A a \in AccountIds :
                          db'.accounts[a].failed_logins = db.accounts[a].failed_logins
                    /\ db'.account_bans = db.account_bans
                    /\ db'.ip_banned = db.ip_banned]_vars

\* a mismatch that would have reached the threshold, on a banned account, was
\* answered and wrote nothing
C13_Witness ==
    \E r \in Requests :
        /\ WrongPassword(r) /\ req[r].result.isBanned
        /\ Answered(r) /\ queue = {}
        /\ cfg.maxWrongPassword > 0
        /\ req[r].result.failedLogins + 1 >= cfg.maxWrongPassword
        /\ Len(submitted[r]) = 1
        /\ db.accounts[req[r].result.accountId].failed_logins = req[r].result.failedLogins

(***************************************************************************)
(* Order of the stages of a chain, and the moment of the response.         *)
(***************************************************************************)
\* the operations of r the store has not executed yet
Outstanding(r) == {op \in queue : op.req = r}

\* a response of r carries a ticket
TicketResponses(r) ==
    {i \in DOMAIN sent[r] : sent[r][i].body.type = "LoginResult" /\ sent[r][i].body.has_login_ticket}

\* r submitted the update of the account's ticket
SubmittedTicketUpdate(r) == "LOGIN_UPD_BNET_AUTHENTICATION" \in SubmittedStmtIds(r)

(***************************************************************************)
(* C14.  The stages of the login chain run in order and never together:    *)
(* the ticket update is submitted only when the account select has         *)
(* completed and only on a hash match, select and update are never both    *)
(* outstanding, and a response carrying a ticket is emitted only when the  *)
(* update that writes this ticket and its expiry for this account id has   *)
(* been applied to the store.                                              *)
(***************************************************************************)
C14_LoginStagesInOrder ==
    \A r \in Requests :
        req[r].kind = "login"
            => /\ Cardinality(Outstanding(r)) <= 1
               /\ SubmittedTicketUpdate(r)
                     => /\ RightPassword(r)
                        /\ Len(applied[r]) >= 1
                        /\ applied[r][1] = "LOGIN_SEL_BNET_AUTHENTICATION"
                        /\ Len(submitted[r]) = 2
                        /\ submitted[r][1].stmts[1].id = "LOGIN_SEL_BNET_AUTHENTICATION"
               /\ \A i \in TicketResponses(r) :
                     /\ applied[r] = << "LOGIN_SEL_BNET_AUTHENTICATION", "LOGIN_UPD_BNET_AUTHENTICATION" >>
                     /\ Outstanding(r) = {}
                     /\ submitted[r][2].stmts =
                           << Stmt("LOGIN_UPD_BNET_AUTHENTICATION", sent[r][i].body.login_ticket,
                                   submitted[r][2].stmts[1].n0, req[r].result.accountId) >>
                     /\ submitted[r][2].stmts[1].n0 >= req[r].result.loginTicketExpiry

\* a login was answered with a ticket made for it, after its update was applied
C14_Witness ==
    \E r \in Requests :
        /\ req[r].kind = "login" /\ TicketResponses(r) # {}
        /\ sent[r][1].body.login_ticket # req[r].result.loginTicket
        /\ applied[r] = << "LOGIN_SEL_BNET_AUTHENTICATION", "LOGIN_UPD_BNET_AUTHENTICATION" >>
        /\ Outstanding(r) = {}

(***************************************************************************)
(* C15 as stated.  A request that hands work to the store is answered only *)
(* when no operation submitted for it is outstanding, the refresh expiry   *)
(* update and the failed-login transaction included.                       *)
(***************************************************************************)
C15_Original ==
    \A r \in Requests : sent[r] # << >> => Outstanding(r) = {}

(***************************************************************************)
(* C15 amended.  A request that hands work to the store is answered by the *)
(* continuation of its last query (its lookup, or for a matching login the *)
(* ticket update), so no query of the request is outstanding when the      *)
(* response is emitted.  The refresh expiry update and the failed-login    *)
(* transaction are submitted by that continuation and not awaited: once    *)
(* the response is emitted, the only operation of the request that can be  *)
(* outstanding is that one write, the last operation it submitted.         *)
(***************************************************************************)
C15_Amended ==
    \A r \in Requests :
        (req[r].handlerResult = "Async" /\ sent[r] # << >>)
            => /\ Answered(r)
               /\ \A op \in Outstanding(r) :
                     /\ op.kind \in {"execute", "transaction"}
                     /\ op = submitted[r][Len(submitted[r])]
               /\ \A i \in DOMAIN submitted[r] :
                     submitted[r][i].kind = "query" => submitted[r][i] \notin queue

\* a refresh was answered while its expiry update was outstanding, and a failed
\* login was answered while its transaction was outstanding
C15_Witness ==
    \E r, q \in Requests :
        /\ req[r].kind = "refresh" /\ sent[r] # << >>
        /\ \E op \in Outstanding(r) : op.kind = "execute"
        /\ req[q].kind = "login" /\ sent[q] # << >>
        /\ \E op \in Outstanding(q) : op.kind = "transaction"

(***************************************************************************)
(* The portal address.                                                     *)
(***************************************************************************)
\* the requests answered by their handler
NextPortal ==
    \/ Tick
    \/ \E r \in Requests : GetForm(r)
    \/ \E r \in Requests : GetPortal(r)

SpecPortal == Init /\ [][NextPortal]_vars

ExternalHostname == Hostnames[1]

InternalHostname == Hostnames[2]

\* r is an answered portal request
PortalAnswered(r) == req[r].kind = "portal" /\ Answered(r)

\* the hostname in the response of the portal request r
PortalHostname(r) == sent[r][1].body.hostname

(***************************************************************************)
(* C16 as stated.  The hostname returned is the internal one whenever the  *)
(* address selection picks the internal entry (the client matches the      *)
(* internal address's network) or the client address is a loopback         *)
(* address, and the external one in every other case, for every client     *)
(* address and every outcome of the selection.                             *)
(***************************************************************************)
C16_Original ==
    \A r \in Requests :
        PortalAnswered(r)
            => PortalHostname(r) =
                  (IF req[r].addressIndex = "1" \/ IsLoopback(req[r].addr)
                   THEN InternalHostname ELSE ExternalHostname)

(***************************************************************************)
(* C16 amended.  When the address selection picks an entry, the hostname   *)
(* returned is that entry's - the external one if it picks the external    *)
(* entry, also for a loopback client, the internal one if it picks the     *)
(* internal entry.  Only when it picks none is the loopback flag looked    *)
(* at: internal for a loopback client, external for every other.           *)
(***************************************************************************)
C16_Amended ==
    \A r \in Requests :
        PortalAnswered(r)
            => /\ req[r].addressIndex = "0" => PortalHostname(r) = ExternalHostname
               /\ req[r].addressIndex = "1" => PortalHostname(r) = InternalHostname
               /\ (req[r].addressIndex = "none" /\ IsLoopback(req[r].addr))
                     => PortalHostname(r) = InternalHostname
               /\ (req[r].addressIndex = "none" /\ ~IsLoopback(req[r].addr))
                     => PortalHostname(r) = ExternalHostname
               /\ sent[r][1].body.port = BattlenetPort

\* a loopback client for which the selection picked the external entry was
\* told the external hostname
C16_Witness ==
    \E r \in Requests :
        /\ PortalAnswered(r)
        /\ IsLoopback(req[r].addr)
        /\ req[r].addressIndex = "0"
        /\ PortalHostname(r) = ExternalHostname

(***************************************************************************)
(* Overlapping requests for one account.                                   *)
(***************************************************************************)
(***************************************************************************)
(* C17.  With WrongPass.MaxCount = N > 0, whatever the interleaving of     *)
(* logins, no step brings the stored failed-login counter of an account    *)
(* from below N to N or more: a counter that starts below N stays below N, *)
(* because every attempt that brings it to N bans and resets in the same   *)
(* transaction.                                                            *)
(***************************************************************************)
C17_CounterStaysBelowMaximum ==
    [][\A a \in AccountIds :
          (cfg.maxWrongPassword > 0 /\ db.accounts[a].failed_logins < cfg.maxWrongPassword)
              => db'.accounts[a].failed_logins < cfg.maxWrongPassword]_vars

\* the step emits, for r, a response that carries a ticket
EmitsTicket(r) ==
    /\ Len(sent'[r]) = Len(sent[r]) + 1
    /\ sent'[r][Len(sent'[r])].body.type = "LoginResult"
    /\ sent'[r][Len(sent'[r])].body.has_login_ticket

(***************************************************************************)
(* C18.  Whenever a response carrying ticket T is emitted for a login, T   *)
(* is the ticket the store holds for the account at that moment, also when *)
(* successful logins for the same account overlap.                         *)
(***************************************************************************)
C18_EmittedTicketIsStored ==
    [][\A r \in Requests :
          EmitsTicket(r)
              => db'.accounts[req[r].result.accountId].LoginTicket
                    = sent'[r][Len(sent'[r])].body.login_ticket]_vars

(***************************************************************************)
(* C19.  With a fixed ticket duration and a clock that never goes back, no *)
(* step decreases the stored ticket expiry of an account, whatever the     *)
(* interleaving of successful logins and refreshes.                        *)
(***************************************************************************)
C19_ExpiryNeverDecreases ==
    [][\A a \in AccountIds :
          db'.accounts[a].LoginTicketExpiry >= db.accounts[a].LoginTicketExpiry]_vars

(***************************************************************************)
(* A login with the right password.                                        *)
(***************************************************************************)
\* a step of a login chain
LoginChainStep ==
    \/ \E op \in queue : DbExecute(op)
    \/ \E r \in Requests : RunLoginSelectCallback(r)
    \/ \E r \in Requests : RunLoginUpdateCallback(r)

\* logins one at a time, their operations completing and their continuations
\* running
SpecSeqLive == Init /\ [][NextSeq]_vars /\ WF_vars(LoginChainStep)

\* r was answered "done" with a non-empty ticket, after the store wrote this
\* ticket and an expiry for the account the lookup found
AnsweredWithTicket(r) ==
    /\ Answered(r)
    /\ sent[r] = << SetJson(NewResponse, LoginResult("DONE", "", "", TRUE, req[r].ticket)) >>
    /\ req[r].ticket # EmptyStr
    /\ applied[r] = << "LOGIN_SEL_BNET_AUTHENTICATION", "LOGIN_UPD_BNET_AUTHENTICATION" >>
    /\ submitted[r][2].stmts[1].str = req[r].ticket
    /\ submitted[r][2].stmts[1].n1 = req[r].result.accountId

(***************************************************************************)
(* C20.  A login whose password hash matches the stored hash always ends   *)
(* in a "done" response carrying a non-empty ticket, after writing ticket  *)
(* and expiry for that account, whatever the ban flag and the failed-login *)
(* counter its lookup read: it is answered in no other way, it submits no  *)
(* statement of the bruteforce guard, and (operations completing and       *)
(* continuations running) it is eventually answered so.                    *)
(***************************************************************************)
C20_MatchAlwaysGetsTicket ==
    /\ [](\A r \in Requests :
             RightPassword(r)
                 => /\ SubmittedStmtIds(r) \cap GuardStmts = {}
                    /\ sent[r] # << >> => AnsweredWithTicket(r))
    /\ \A r \in Requests : RightPassword(r) ~> AnsweredWithTicket(r)

\* a banned account with failed logins counted got a ticket for the right
\* password, and the store holds it
C20_Witness ==
    \E r \in Requests :
        /\ RightPassword(r)
        /\ req[r].result.isBanned
        /\ req[r].result.failedLogins > 0
        /\ AnsweredWithTicket(r)
        /\ db.accounts[req[r].result.accountId].LoginTicket = req[r].ticket
        /\ db.accounts[req[r].result.accountId].failed_logins = req[r].result.failedLogins

====
